---- MODULE Spec2Model ----
(***************************************************************************)
(* The POST /clearsky/{plant_name}/{interval} handler of pvcast            *)
(* (src/pvcast/webserver/routers/clearsky.py, function post) as a state    *)
(* machine: one request is followed from the construction of the empty     *)
(* result DataFrame through the plant loop, the Total aggregation, the NaN *)
(* check, the rounding, the serialisation and the response.                *)
(*                                                                         *)
(* Numbers.  A forecast value is a multiple of 1/Scale watt and is stored  *)
(* as the integer number of such units; the integers of the response are   *)
(* whole watts.  A cell of a Series or DataFrame is <<>> (NaN) or <<v>>.   *)
(***************************************************************************)
EXTENDS Integers, Sequences, FiniteSets, TLC

\* Number of instants the date source produces for the requested window.
MaxT == 2
\* Resolution of the forecast values: a value v stands for v / Scale watt.
Scale == 2

NaN == <<>>

IsNaN(c) == c = NaN

\* pv_system_mngr.pv_plants.keys(), in registry order.
PVPlants == <<"A", "B">>

\* The members of the path enum PVPlantNames: every plant and "All".
PVPlantNames == {"All"} \cup {PVPlants[j] : j \in 1..Len(PVPlants)}

\* str.lower() on the enum member names.
Lower(s) ==
    CASE s = "All" -> "all"
      [] s = "A" -> "a"
      [] s = "B" -> "b"
      [] OTHER -> s

\* weather_api.get_source_dates(start, end, interval): the ordered instants.
Datetimes == [k \in 1..MaxT |-> k]

\* index.strftime("%Y-%m-%dT%H:%M:%S%z"): the label of an instant is text;
\* here the text is the sequence of the instant's two decimal digits.
Strftime(t) == <<t \div 10, t % 10>>

StrftimeIndex(idx) == [k \in 1..Len(idx) |-> Strftime(idx[k])]

\* The ascending sequence of a finite set of integers.
RECURSIVE SortedSeq(_)
SortedSeq(S) ==
    IF S = {} THEN <<>>
    ELSE LET m == CHOOSE x \in S : \A y \in S : x <= y
         IN <<m>> \o SortedSeq(S \ {m})

RECURSIVE SumSeq(_)
SumSeq(s) == IF s = <<>> THEN 0 ELSE s[1] + SumSeq(Tail(s))

\* The value of a cell when NaN is skipped (skipna=True).
SkipNa(c) == IF IsNaN(c) THEN 0 ELSE c[1]

----------------------------------------------------------------------------
(* The forecasts pvplant.clearsky.run can return: a power and an energy   *)
(* series over some of the instants, at most one cell of which is NaN.    *)

Levels == {1, Scale}

SeriesOver(S, level, nanAt) ==
    LET idx == SortedSeq(S)
    IN [index |-> idx,
        data  |-> [k \in 1..Len(idx) |->
                     IF idx[k] = nanAt THEN NaN
                     ELSE <<level + Scale * (idx[k] - 1)>>],
        dtype |-> "float64"]

ForecastResults ==
    { [ac_power  |-> SeriesOver(S, lp, IF n[1] = "ac_power" THEN n[2] ELSE 0),
       ac_energy |-> SeriesOver(S, le, IF n[1] = "ac_energy" THEN n[2] ELSE 0)] :
        S \in SUBSET (1..MaxT), lp \in Levels, le \in Levels,
        n \in {<<"none", 0>>} \cup ({"ac_power", "ac_energy"} \X (1..MaxT)) }

----------------------------------------------------------------------------
(* The pandas operations the handler uses.  A Series is a record          *)
(* [index, data, dtype]; a DataFrame is [index, columns, data, dtypes]    *)
(* where data maps each column key <<type, plant>> to its cells.          *)

Metrics == <<"watt", "watt_hours", "watt_hours_cumsum">>

MetricSet == {Metrics[j] : j \in 1..Len(Metrics)}

\* [(metric, pv_plant) for pv_plant in pv_plant_names]
ColsFor(metric, names) == [j \in 1..Len(names) |-> <<metric, names[j]>>]

\* cols: per metric the plants, then the Total columns when all_arg.
BuildCols(names, all) ==
    ColsFor("watt", names) \o ColsFor("watt_hours", names)
        \o ColsFor("watt_hours_cumsum", names)
        \o (IF all THEN <<<<"watt_hours", "Total">>>> ELSE <<>>)
        \o (IF all THEN <<<<"watt_hours_cumsum", "Total">>>> ELSE <<>>)
        \o (IF all THEN <<<<"watt", "Total">>>> ELSE <<>>)

ColSet(cols) == {cols[j] : j \in 1..Len(cols)}

\* pd.DataFrame(columns=multi_index): no rows, every column of dtype object.
EmptyFrame(cols) ==
    [index   |-> <<>>,
     columns |-> cols,
     data    |-> [c \in ColSet(cols) |-> <<>>],
     dtypes  |-> [c \in ColSet(cols) |-> "object"]]

\* Series.reindex(index): cells are matched by label, a label the series
\* lacks gives NaN, a label the index lacks is dropped.
Reindex(ser, index) ==
    [k \in 1..Len(index) |->
        IF \E j \in 1..Len(ser.index) : ser.index[j] = index[k]
        THEN ser.data[CHOOSE j \in 1..Len(ser.index) : ser.index[j] = index[k]]
        ELSE NaN]

\* result_df[key] = ser.  A frame without rows takes the index of the first
\* non-empty Series assigned to it (its existing columns become NaN there);
\* after that every assigned Series is aligned to the frame's index.
SetItem(df, key, ser) ==
    LET adopt == Len(df.index) = 0 /\ Len(ser.index) > 0
        idx   == IF adopt THEN ser.index ELSE df.index
        base  == IF adopt
                 THEN [c \in DOMAIN df.data |-> [k \in 1..Len(idx) |-> NaN]]
                 ELSE df.data
    IN [df EXCEPT !.index  = idx,
                  !.data   = [base EXCEPT ![key] = Reindex(ser, idx)],
                  !.dtypes = [df.dtypes EXCEPT ![key] = ser.dtype]]

\* Mutant of Cumsum: the energy series is written without accumulating it.
CumsumNone(ser) == ser

\* Series.cumsum(): the running sum over the series' own index; a NaN cell
\* stays NaN and is skipped by the sum.
Cumsum(ser) ==
    [ser EXCEPT !.data =
        [k \in 1..Len(ser.data) |->
            IF IsNaN(ser.data[k]) THEN NaN
            ELSE <<SumSeq([j \in 1..k |-> SkipNa(ser.data[j])])>>]]

\* The columns result_df[metric] selects: every column of that type, in
\* column order, the Total column included.
Select(df, metric) == SelectSeq(df.columns, LAMBDA c : c[1] = metric)

\* Mutant of SumAxis1: result_df.sum(axis=1), the sum over every column of
\* the frame instead of the columns of one type.
SumAxis1AllColumns(df, metric, keepObject) ==
    [index |-> df.index,
     data  |-> [k \in 1..Len(df.index) |->
                  <<SumSeq([j \in 1..Len(df.columns) |->
                               SkipNa(df.data[df.columns[j]][k])])>>],
     dtype |-> IF keepObject THEN "object" ELSE "float64"]

\* result_df[metric].sum(axis=1): per row the sum of the selected columns,
\* NaN skipped (a row of NaN sums to 0).  With an object column among the
\* selected ones the result is float64, or object when the reduction keeps
\* the object dtype.
SumAxis1(df, metric, keepObject) ==
    LET sel == Select(df, metric)
    IN [index |-> df.index,
        data  |-> [k \in 1..Len(df.index) |->
                     <<SumSeq([j \in 1..Len(sel) |-> SkipNa(df.data[sel[j]][k])])>>],
        dtype |-> IF keepObject /\ \E j \in 1..Len(sel) : df.dtypes[sel[j]] = "object"
                  THEN "object" ELSE "float64"]

\* Mutant of IsNullAny: .all() instead of .any().
IsNullAll(df) ==
    /\ Len(df.index) > 0
    /\ \A c \in DOMAIN df.data : \A k \in 1..Len(df.index) : IsNaN(df.data[c][k])

\* result_df.isnull().values.any()
IsNullAny(df) ==
    \E c \in DOMAIN df.data : \E k \in 1..Len(df.index) : IsNaN(df.data[c][k])

\* numpy rounding of v / Scale to 0 decimals: to nearest, ties to even.
Round0(v) ==
    LET q == v \div Scale
        r == v % Scale
    IN IF 2 * r < Scale THEN q
       ELSE IF 2 * r > Scale THEN q + 1
       ELSE IF q % 2 = 0 THEN q ELSE q + 1

\* int(v / Scale) on a non-negative value: the fraction is cut off.
Trunc(v) == v \div Scale

\* result_df.round(0).astype(int): round(0) rounds the numeric columns and
\* leaves an object column as it is, astype(int) then makes every cell int.
RoundAsInt(df) ==
    [df EXCEPT
        !.data = [c \in DOMAIN df.data |->
                    [k \in 1..Len(df.index) |->
                        IF df.dtypes[c] = "object"
                        THEN <<Trunc(df.data[c][k][1])>>
                        ELSE <<Round0(df.data[c][k][1])>>]],
        !.dtypes = [c \in DOMAIN df.dtypes |-> "int64"]]

\* dict(multi_idx_to_nested_dict(result_df.T)): type -> plant -> the ordered
\* (timestamp label, value) items of that column.
MultiIdxToNestedDict(df) ==
    [m \in {c[1] : c \in DOMAIN df.data} |->
        [p \in {c[2] : c \in {d \in DOMAIN df.data : d[1] = m}} |->
            [k \in 1..Len(df.index) |-> <<df.index[k], df.data[<<m, p>>][k][1]>>]]]

----------------------------------------------------------------------------
(* The handler.                                                            *)

VARIABLES
    pc,               \* the handler's position
    plant_name,       \* the path parameter, a member of PVPlantNames
    all_arg,          \* line 57
    pv_plant_names,   \* line 58
    i,                \* position of the plant loop in pv_plant_names
    result_df,        \* the result DataFrame, then the nested dict
    ac_power,         \* <<>> while the local is unbound, else <<the Series>>
    clearsky_output,  \* per plant: <<>>, or <<what clearsky.run returned>>
    response,         \* <<>>, or <<the response dict>>
    error             \* the exception the request ended in, or "none"

vars == <<pc, plant_name, all_arg, pv_plant_names, i, result_df, ac_power,
          clearsky_output, response, error>>

PlantSet == {PVPlants[j] : j \in 1..Len(PVPlants)}

\* The row positions of the result frame.
Rows == 1..Len(result_df.index)

Init ==
    /\ pc = "start"
    /\ plant_name \in PVPlantNames
    /\ all_arg = FALSE
    /\ pv_plant_names = <<>>
    /\ i = 1
    /\ result_df = EmptyFrame(<<>>)
    /\ ac_power = <<>>
    /\ clearsky_output = [p \in PlantSet |-> <<>>]
    /\ response = <<>>
    /\ error = "none"

\* Mutant of AllArg: the name is compared without lower().
AllArgExact(name) == name = "all"

\* Line 57: plant_name.name.lower() == "all"
AllArg(name) == Lower(name) = "all"

\* Lines 56-70: the plant list, the columns and the empty result frame.
BuildFrame ==
    /\ pc = "start"
    /\ LET all   == AllArg(plant_name)
           names == IF all THEN PVPlants ELSE <<plant_name>>
       IN /\ all_arg' = all
          /\ pv_plant_names' = names
          /\ result_df' = EmptyFrame(BuildCols(names, all))
    /\ i' = 1
    /\ pc' = "loop"
    /\ UNCHANGED <<plant_name, ac_power, clearsky_output, response, error>>

\* Lines 77-81: get_pv_plant raises KeyError; the plant is skipped.
PlantNotFound ==
    /\ pc = "loop"
    /\ i <= Len(pv_plant_names)
    /\ i' = i + 1
    /\ UNCHANGED <<pc, plant_name, all_arg, pv_plant_names, result_df, ac_power,
                   clearsky_output, response, error>>

\* Lines 89-90: the two series get their labels.
WithLabels(ser) == [ser EXCEPT !.index = StrftimeIndex(ser.index)]

\* Lines 93-95: the plant's three columns.
PutPlant(df, pv_plant, power, energy) ==
    LET d1 == SetItem(df, <<"watt", pv_plant>>, power)
        d2 == SetItem(d1, <<"watt_hours", pv_plant>>, energy)
    IN SetItem(d2, <<"watt_hours_cumsum", pv_plant>>, Cumsum(energy))

\* Lines 78-95: the plant is found, forecast and written to the frame.
PlantForecast ==
    /\ pc = "loop"
    /\ i <= Len(pv_plant_names)
    /\ \E out \in ForecastResults :
          LET pv_plant == pv_plant_names[i]
              power    == WithLabels(out.ac_power)
              energy   == WithLabels(out.ac_energy)
          IN /\ clearsky_output' = [clearsky_output EXCEPT ![pv_plant] = <<out>>]
             /\ ac_power' = <<power>>
             /\ result_df' = PutPlant(result_df, pv_plant, power, energy)
    /\ i' = i + 1
    /\ UNCHANGED <<pc, plant_name, all_arg, pv_plant_names, response, error>>

\* Mutant of PutTotals: the cumulative Total is summed from the watt_hours
\* columns.
PutTotalsCopied(df, keepObject) ==
    LET d1 == SetItem(df, <<"watt", "Total">>, SumAxis1(df, "watt", keepObject))
        d2 == SetItem(d1, <<"watt_hours", "Total">>,
                      SumAxis1(d1, "watt_hours", keepObject))
    IN SetItem(d2, <<"watt_hours_cumsum", "Total">>,
               SumAxis1(d1, "watt_hours", keepObject))

\* Lines 99-101: the three Total columns, in this order.
PutTotals(df, keepObject) ==
    LET d1 == SetItem(df, <<"watt", "Total">>, SumAxis1(df, "watt", keepObject))
        d2 == SetItem(d1, <<"watt_hours", "Total">>,
                      SumAxis1(d1, "watt_hours", keepObject))
    IN SetItem(d2, <<"watt_hours_cumsum", "Total">>,
               SumAxis1(d2, "watt_hours_cumsum", keepObject))

\* Lines 97-101: the loop is over; the totals of an all-plants request.
\* Whether a row sum over a frame with an object column is itself of dtype
\* object depends on the pandas release in use.
SumTotals ==
    /\ pc = "loop"
    /\ i > Len(pv_plant_names)
    /\ IF all_arg
       THEN \E keepObject \in BOOLEAN : result_df' = PutTotals(result_df, keepObject)
       ELSE result_df' = result_df
    /\ pc' = "check"
    /\ UNCHANGED <<plant_name, all_arg, pv_plant_names, i, ac_power,
                   clearsky_output, response, error>>

\* Lines 103-105: a NaN anywhere in the frame raises ValueError.
CheckNaN ==
    /\ pc = "check"
    /\ IF IsNullAny(result_df)
       THEN pc' = "error" /\ error' = "ValueError"
       ELSE pc' = "round" /\ error' = error
    /\ UNCHANGED <<plant_name, all_arg, pv_plant_names, i, result_df, ac_power,
                   clearsky_output, response>>

\* Lines 107-108.  astype(int) cannot convert a NaN and raises.
RoundFrame ==
    /\ pc = "round"
    /\ IF \E c \in DOMAIN result_df.data : \E k \in Rows : IsNaN(result_df.data[c][k])
       THEN pc' = "error" /\ error' = "IntCastingNaNError" /\ result_df' = result_df
       ELSE pc' = "serialize" /\ error' = error /\ result_df' = RoundAsInt(result_df)
    /\ UNCHANGED <<plant_name, all_arg, pv_plant_names, i, ac_power,
                   clearsky_output, response>>

\* Lines 110-111.
Serialize ==
    /\ pc = "serialize"
    /\ result_df' = MultiIdxToNestedDict(result_df)
    /\ pc' = "respond"
    /\ UNCHANGED <<plant_name, all_arg, pv_plant_names, i, ac_power,
                   clearsky_output, response, error>>

\* Mutant of ResponseStart: the start of the requested window.
ResponseStartOfWindow(power) == Strftime(Datetimes[1])

\* Line 116 and line 117.
ResponseStart(power) == power.index[1]

ResponseEnd(power) == power.index[Len(power.index)]

\* Lines 113-122: reading ac_power when no plant was found raises
\* UnboundLocalError, index[0] of an empty index raises IndexError.
Respond ==
    /\ pc = "respond"
    /\ IF ac_power = <<>>
       THEN pc' = "error" /\ error' = "UnboundLocalError" /\ response' = response
       ELSE IF Len(ac_power[1].index) = 0
       THEN pc' = "error" /\ error' = "IndexError" /\ response' = response
       ELSE /\ pc' = "done"
            /\ error' = error
            /\ response' = <<[interval |-> "1h",
                              start    |-> ResponseStart(ac_power[1]),
                              end      |-> ResponseEnd(ac_power[1]),
                              timezone |-> "tz",
                              result   |-> result_df]>>
    /\ UNCHANGED <<plant_name, all_arg, pv_plant_names, i, result_df, ac_power,
                   clearsky_output>>

Next ==
    \/ BuildFrame
    \/ PlantNotFound
    \/ PlantForecast
    \/ SumTotals
    \/ CheckNaN
    \/ RoundFrame
    \/ Serialize
    \/ Respond

Spec == Init /\ [][Next]_vars

----------------------------------------------------------------------------
(* Vocabulary of the properties.                                           *)

\* The plants whose lookup succeeded so far.
Filled == {p \in PlantSet : clearsky_output[p] # <<>>}

\* What clearsky.run returned for a filled plant.
PowerOf(p) == clearsky_output[p][1].ac_power

EnergyOf(p) == clearsky_output[p][1].ac_energy

\* Some cell of the table is undefined.
HasUndefinedCell ==
    \E c \in DOMAIN result_df.data : \E k \in Rows : IsNaN(result_df.data[c][k])

\* The sum of f[j] over the positions j of PVPlants that hold a plant of S.
SumPlants(S, f) ==
    SumSeq([j \in 1..Len(PVPlants) |-> IF PVPlants[j] \in S THEN f[j] ELSE 0])

\* The position in ser of the instant labelled lbl, 0 when there is none.
PosOf(ser, lbl) ==
    IF \E j \in 1..Len(ser.index) : Strftime(ser.index[j]) = lbl
    THEN CHOOSE j \in 1..Len(ser.index) : Strftime(ser.index[j]) = lbl
    ELSE 0

\* Every value the filled plants' forecasts hold is a whole number of watts.
Integral(ser) == \A k \in 1..Len(ser.data) : SkipNa(ser.data[k]) % Scale = 0

AllIntegral == \A p \in Filled : Integral(PowerOf(p)) /\ Integral(EnergyOf(p))

\* The last plant, in processing order, whose lookup succeeded.
LastFilled ==
    pv_plant_names[CHOOSE j \in 1..Len(pv_plant_names) :
        /\ pv_plant_names[j] \in Filled
        /\ \A l \in (j+1)..Len(pv_plant_names) : pv_plant_names[l] \notin Filled]

----------------------------------------------------------------------------
(* The claims.                                                             *)

\* C1: in an all-plants request, once the loop and the aggregation are over,
\* every Total cell (m, Total) at t is the sum of the cells (m, p) at t over
\* exactly the plants whose columns were filled (undefined cells skipped); no
\* Total column and no unfilled column adds to it.
C1_TotalIsSumOfFilledPlants ==
    (pc = "check" /\ all_arg) =>
        \A m \in MetricSet : \A k \in Rows :
            result_df.data[<<m, "Total">>][k] =
                <<SumPlants(Filled,
                    [j \in 1..Len(PVPlants) |->
                        SkipNa(result_df.data[<<m, PVPlants[j]>>][k])])>>

C1_Witness ==
    /\ pc = "check" /\ all_arg
    /\ Filled = PlantSet
    /\ Len(result_df.index) = MaxT
    /\ ~HasUndefinedCell

OwnRunningSum(p, j) == SumSeq([l \in 1..j |-> SkipNa(EnergyOf(p).data[l])])

C4_SinglePlantNotFound ==
    (pc \in {"done", "error"} /\ ~all_arg /\ Filled = {}) =>
        (pc = "error" /\ error = "NotFound" /\ response = <<>>)

\* C5: when no requested plant was found, the NaN check raises ValueError;
\* the unfilled table never gets past the check.
C5_UnfilledTableRejected ==
    (pc \notin {"start", "loop", "check"} /\ Filled = {}) =>
        (pc = "error" /\ error = "ValueError")

\* A filled plant whose two series cover every instant of the window with a
\* defined value.
Complete(p) ==
    /\ PowerOf(p).index = Datetimes
    /\ EnergyOf(p).index = Datetimes
    /\ \A k \in 1..MaxT : ~IsNaN(PowerOf(p).data[k]) /\ ~IsNaN(EnergyOf(p).data[k])

\* C6: an all-plants request in which a plant was not found and every other
\* plant delivered complete series ends in a response, and that response has
\* no column of the plant that was not found.
C6_FailedLookupIsSkipped ==
    (/\ pc \in {"done", "error"} /\ all_arg
     /\ Filled # {} /\ Filled # PlantSet
     /\ \A p \in Filled : Complete(p)) =>
        /\ pc = "done"
        /\ \A m \in DOMAIN response[1].result :
               DOMAIN response[1].result[m] \subseteq Filled \cup {"Total"}

\* C7: Total is a plant key of the result exactly when the request is for
\* "all"; a single-plant result holds the three metrics for that plant and
\* nothing else, an all-plants result holds Total under each metric.
C7_TotalIffAll ==
    pc = "done" =>
        LET r == response[1].result
        IN /\ (\E m \in DOMAIN r : "Total" \in DOMAIN r[m]) <=> (Lower(plant_name) = "all")
           /\ Lower(plant_name) # "all" =>
                 /\ DOMAIN r = MetricSet
                 /\ \A m \in MetricSet : DOMAIN r[m] = {plant_name}
           /\ Lower(plant_name) = "all" =>
                 /\ DOMAIN r = MetricSet
                 /\ \A m \in MetricSet : "Total" \in DOMAIN r[m]

C7_Witness ==
    /\ pc = "done"
    /\ Lower(plant_name) = "all"
    /\ \A m \in MetricSet : "Total" \in DOMAIN response[1].result[m]

\* C8: the response's start and end are the labels of the first and the last
\* timestamp of the power series that clearsky.run returned for the last
\* plant, in processing order, whose lookup succeeded.
C8_StartEndFromLastPlant ==
    pc = "done" =>
        LET power == PowerOf(LastFilled)
        IN /\ response[1].start = Strftime(power.index[1])
           /\ response[1].end = Strftime(power.index[Len(power.index)])

C8_Witness ==
    /\ pc = "done" /\ all_arg
    /\ Len(PowerOf(LastFilled).index) = 1
    /\ response[1].start = Strftime(Datetimes[MaxT])

\* C9: in every response, start and end are the first and the last timestamp
\* key of every series of the result.
C9_StartEndAreResultKeys ==
    pc = "done" =>
        LET r == response[1].result
        IN \A m \in DOMAIN r : \A p \in DOMAIN r[m] :
              /\ r[m][p][1][1] = response[1].start
              /\ r[m][p][Len(r[m][p])][1] = response[1].end

\* The Total law on the integers of the response.
TotalLawOnResult ==
    LET r == response[1].result
    IN \A m \in MetricSet : \A k \in 1..Len(r[m]["Total"]) :
          r[m]["Total"][k][2] =
              SumPlants(PlantSet, [j \in 1..Len(PVPlants) |-> r[m][PVPlants[j]][k][2]])

\* C10 as stated: in every all-plants response, for any forecast values, the
\* returned Total equals the sum of the returned plant values.
C10_Original == (pc = "done" /\ all_arg) => TotalLawOnResult

\* C10 amended: in every all-plants response whose forecast values are all
\* whole numbers, the returned Total equals the sum of the returned plant
\* values, for every metric and timestamp.
C10_TotalLawForIntegralValues ==
    (pc = "done" /\ all_arg /\ AllIntegral) => TotalLawOnResult

C10_Witness ==
    /\ pc = "done" /\ all_arg /\ AllIntegral
    /\ Len(response[1].result["watt"]["Total"]) = MaxT

====
